---- MODULE Spec2Model ----
(***************************************************************************)
(* Model of the Python image formatter: the command-line batch tool        *)
(* (image_formatter.py) and the web upload service (app.py).               *)
(*                                                                         *)
(* Spec       : the two batch drivers (main's folder loop, process_images) *)
(*              running the per-image pipeline stage by stage.             *)
(* SpecCenter : center_image_on_canvas (both variants) applied to inputs   *)
(*              drawn from bounded sets.                                   *)
(***************************************************************************)
EXTENDS Integers, Sequences, FiniteSets, TLC

(***************************************************************************)
(* Bounds of the model                                                     *)
(***************************************************************************)
MaxDim == 22
MaxCanvas == 15
MaxFiles == 2

(***************************************************************************)
(* Program constants                                                       *)
(***************************************************************************)
DefaultCanvas == 1200
MantissaBits == 53

(***************************************************************************)
(* IEEE-754 binary64 arithmetic, as far as the scale factor needs it.      *)
(* Python's int / int and float * int are correctly rounded (round to      *)
(* nearest, ties to even); int(float) truncates.                           *)
(*                                                                         *)
(* A positive double is [d |-> its 53-bit significand as five digits, most *)
(* significant first: the leading bit, then four digits of 13 bits;        *)
(* e |-> the exponent of the last bit].  Its value is significand * 2^e.   *)
(***************************************************************************)
DigitBits == (MantissaBits - 1) \div 4

\* 2^n by repeated squaring
RECURSIVE Pow2(_)
Pow2(n) ==
    IF n = 0 THEN 1
    ELSE LET half == Pow2(n \div 2)
         IN  IF n % 2 = 0 THEN half * half ELSE 2 * half * half

DigitBase == Pow2(DigitBits)

\* the number of binary digits of n >= 0
BitLen(n) == CHOOSE k \in 0..30 : n < Pow2(k) /\ (k = 0 \/ Pow2(k - 1) <= n)

\* the p with 2^p <= a / b < 2^(p+1), for a, b >= 1
LeadExp(a, b) ==
    IF a >= b THEN BitLen(a \div b) - 1
    ELSE 0 - (CHOOSE t \in 1..30 : a * Pow2(t) >= b /\ a * Pow2(t - 1) < b)

\* long division, one digit a step: the digits of rem / den found so far and
\* the remainder left
RECURSIVE LongDiv(_, _, _, _)
LongDiv(rem, den, n, digits) ==
    IF n = 0 THEN [d |-> digits, rem |-> rem]
    ELSE LongDiv((rem * DigitBase) % den, den, n - 1,
                 Append(digits, (rem * DigitBase) \div den))

\* significand + 1; a significand of all ones carries into the next binade
FloatInc(f) ==
    IF \A i \in 2..Len(f.d) : f.d[i] = DigitBase - 1
    THEN [d |-> [i \in 1..Len(f.d) |-> IF i = 1 THEN 1 ELSE 0], e |-> f.e + 1]
    ELSE LET z == CHOOSE i \in 2..Len(f.d) :
                      /\ f.d[i] # DigitBase - 1
                      /\ \A j \in (i + 1)..Len(f.d) : f.d[j] = DigitBase - 1
         IN  [d |-> [i \in 1..Len(f.d) |->
                       IF i < z THEN f.d[i] ELSE IF i = z THEN f.d[i] + 1 ELSE 0],
              e |-> f.e]

\* round to nearest, ties to even: up says "above half", tie says "exactly half"
RoundNearestEven(f, up, tie) ==
    IF up \/ (tie /\ f.d[Len(f.d)] % 2 = 1) THEN FloatInc(f) ELSE f

\* the rounding of the division, given its quotient digits and remainder
RoundQuotient(q, den, e) ==
    RoundNearestEven([d |-> q.d, e |-> e], 2 * q.rem > den, 2 * q.rem = den)

\* a / b for integers a, b >= 1
FloatDiv(a, b) ==
    LET p == LeadExp(a, b)
        num == IF p >= 0 THEN a ELSE a * Pow2(0 - p)
        den == IF p >= 0 THEN b * Pow2(p) ELSE b
    IN  RoundQuotient(LongDiv(num - den, den, 4, << 1 >>), den, p - (MantissaBits - 1))

\* the digits below the leading one times k, last digit first, with a carry;
\* the first entry of the result is k * leading digit + carry, not reduced
RECURSIVE MulDigits(_, _, _, _, _)
MulDigits(d, k, i, carry, acc) ==
    IF i = 1 THEN << d[1] * k + carry >> \o acc
    ELSE MulDigits(d, k, i - 1, (d[i] * k + carry) \div DigitBase,
                   << (d[i] * k + carry) % DigitBase >> \o acc)

\* the product shifted right by drop bits, so that its leading digit is 1
\* again, and rounded on the bits shifted out
RoundProduct(prod, drop, e) ==
    LET low == Pow2(drop)
        out == prod[Len(prod)] % low
        half == low \div 2
    IN  RoundNearestEven(
            [d |-> [i \in 1..Len(prod) |->
                      IF i = 1 THEN prod[1] \div low
                      ELSE (prod[i] \div low) + (prod[i - 1] % low) * (DigitBase \div low)],
             e |-> e + drop],
            drop > 0 /\ out > half, drop > 0 /\ out = half)

NormalizeProduct(prod, e) == RoundProduct(prod, BitLen(prod[1]) - 1, e)

\* k * f for an integer k >= 1
FloatMulInt(k, f) == NormalizeProduct(MulDigits(f.d, k, Len(f.d), 0, << >>), f.e)

\* int(f): truncation towards zero, for a double below 2^27
FloatTrunc(f) ==
    LET n == MantissaBits + f.e
    IN  IF n <= 0 THEN 0
        ELSE f.d[1] * Pow2(n - 1)
             + (f.d[2] * DigitBase + f.d[3]) \div Pow2(2 * DigitBits - (n - 1))

FloatLess(f, g) ==
    \/ f.e < g.e
    \/ /\ f.e = g.e
       /\ \E i \in 1..Len(f.d) : f.d[i] < g.d[i] /\ \A j \in 1..(i - 1) : f.d[j] = g.d[j]

\* Python's min(a, b): b only when b < a
FloatMin(f, g) == IF FloatLess(g, f) THEN g ELSE f

(***************************************************************************)
(* Values shared by both front ends                                        *)
(***************************************************************************)
SUPPORTED_FORMATS == {"jpg", "jpeg", "png", "tiff", "tif", "bmp", "webp"}

NoCanvas == [kind |-> "none"]
Raised == [kind |-> "raise"]

\* ImageOps.exif_transpose: orientation tags 5..8 exchange width and height,
\* tags 2..4 keep them, tag 1 or no tag (0) leaves the image as it is
exif_transpose(image) ==
    IF image.orient \in 5..8
    THEN [image EXCEPT !.w = image.h, !.h = image.w, !.orient = 0]
    ELSE [image EXCEPT !.orient = 0]

\* apply_exif_orientation: an exception of exif_transpose is logged and the
\* image is returned unchanged
apply_exif_orientation_raises(image, fails) ==
    IF fails THEN Raised ELSE exif_transpose(image)

apply_exif_orientation(image, fails) ==
    IF fails THEN image ELSE exif_transpose(image)

\* x = (canvas_size - image.width) // 2, likewise y
CenterOffset_ceil(canvas_size, extent) == (canvas_size - extent + 1) \div 2

CenterOffset(canvas_size, extent) == (canvas_size - extent) \div 2

\* image.width > canvas_size or image.height > canvas_size
Oversize_width_only(image, canvas_size) == image.w > canvas_size

Oversize(image, canvas_size) == image.w > canvas_size \/ image.h > canvas_size

\* Image.new, the centre position and canvas.paste
NewCanvas(image, canvas_size, bg_color) ==
    [kind |-> "canvas",
     w |-> canvas_size, h |-> canvas_size,
     mode |-> IF bg_color = << >> THEN "RGBA" ELSE "RGB",
     x |-> CenterOffset(canvas_size, image.w),
     y |-> CenterOffset(canvas_size, image.h),
     pw |-> image.w, ph |-> image.h,
     mask |-> image.alpha]

\* image_formatter.center_image_on_canvas: no resizing, None when too large
center_image_on_canvas_cli(image, canvas_size, bg_color) ==
    IF Oversize(image, canvas_size) THEN NoCanvas
    ELSE NewCanvas(image, canvas_size, bg_color)

\* scale_factor = min(canvas_size / image.width, canvas_size / image.height)
scale_factor(image, canvas_size) ==
    FloatMin(FloatDiv(canvas_size, image.w), FloatDiv(canvas_size, image.h))

\* new_width = int(image.width * scale_factor), likewise new_height
new_size(image, canvas_size) ==
    LET scale == scale_factor(image, canvas_size)
    IN  [w |-> FloatTrunc(FloatMulInt(image.w, scale)),
         h |-> FloatTrunc(FloatMulInt(image.h, scale))]

\* app.center_image_on_canvas: resize when too large; Image.resize raises
\* ValueError ("height and width must be > 0") for an empty target size
center_image_on_canvas_web(image, canvas_size, bg_color) ==
    IF Oversize(image, canvas_size)
    THEN LET n == new_size(image, canvas_size)
         IN  IF n.w < 1 \/ n.h < 1 THEN Raised
             ELSE NewCanvas([image EXCEPT !.w = n.w, !.h = n.h], canvas_size, bg_color)
    ELSE NewCanvas(image, canvas_size, bg_color)

center_image_on_canvas(fe, image, canvas_size, bg_color) ==
    IF fe = "cli" THEN center_image_on_canvas_cli(image, canvas_size, bg_color)
    ELSE center_image_on_canvas_web(image, canvas_size, bg_color)

(***************************************************************************)
(* parse_color.  A colour string is a sequence of one-character strings;   *)
(* "absent" stands for None (no --bg given).                               *)
(***************************************************************************)
HexValue == [c \in {"0", "1", "2", "a", "b", "c", "f"} |->
               CASE c = "0" -> 0 [] c = "1" -> 1 [] c = "2" -> 2 [] c = "a" -> 10
                 [] c = "b" -> 11 [] c = "c" -> 12 [] c = "f" -> 15]

IsHex(c) == c \in DOMAIN HexValue

\* str.strip()
RECURSIVE StripLeft(_)
StripLeft(s) == IF s # << >> /\ Head(s) = " " THEN StripLeft(Tail(s)) ELSE s

RECURSIVE StripRight(_)
StripRight(s) ==
    IF s # << >> /\ s[Len(s)] = " " THEN StripRight(SubSeq(s, 1, Len(s) - 1)) ELSE s

Strip(s) == StripRight(StripLeft(s))

\* int(s, 16) for a string of one or two characters: surrounding blanks and a
\* sign are accepted; -1000 stands for ValueError
BadInt == 0 - 1000

Int16(s) ==
    LET t == Strip(s)
    IN  IF Len(t) = 1 /\ IsHex(t[1]) THEN HexValue[t[1]]
        ELSE IF Len(t) = 2 /\ IsHex(t[1]) /\ IsHex(t[2])
             THEN 16 * HexValue[t[1]] + HexValue[t[2]]
        ELSE IF Len(t) = 2 /\ t[1] = "+" /\ IsHex(t[2]) THEN HexValue[t[2]]
        ELSE IF Len(t) = 2 /\ t[1] = "-" /\ IsHex(t[2]) THEN 0 - HexValue[t[2]]
        ELSE BadInt

\* the result is [ok |-> FALSE] for ValueError, else the colour: << >> for
\* None (transparent) or the RGB triple
parse_color(color_str) ==
    IF color_str = << "absent" >> THEN [ok |-> TRUE, rgb |-> << >>]
    ELSE LET t == Strip(color_str)
             u == IF t # << >> /\ Head(t) = "#" THEN Tail(t) ELSE t
             six == [i \in 1..3 |-> Int16(SubSeq(u, 2 * i - 1, 2 * i))]
             three == [i \in 1..3 |-> Int16(<< u[i] >>)]
         IN  IF Len(u) = 6
             THEN IF \E i \in 1..3 : six[i] = BadInt THEN [ok |-> FALSE, rgb |-> << >>]
                  ELSE [ok |-> TRUE, rgb |-> six]
             ELSE IF Len(u) = 3
             THEN IF \E i \in 1..3 : three[i] = BadInt THEN [ok |-> FALSE, rgb |-> << >>]
                  ELSE [ok |-> TRUE, rgb |-> [i \in 1..3 |-> three[i] * 17]]
             ELSE [ok |-> FALSE, rgb |-> << >>]

(***************************************************************************)
(* Inputs the environment chooses from                                     *)
(***************************************************************************)
CliSizes == {0 - 1, 0, DefaultCanvas}

FileDims == {1, DefaultCanvas, 2000}

Orientations == {0, 3, 6}

BgSamples == { << "absent" >>,
               << "#", "f", "f", "f", "f", "f", "f" >>,
               << " ", "#", "f", "f", "f" >>,
               << "1", "2" >>,
               << "#", "g", "g", "g" >> }

\* "a_1" is the stem << "a", 1 >>
Stems == { << "a" >>, << "a", 1 >> }

Names == [stem : Stems, ext : {"jpg", "png", "txt"}]

NoName == [stem |-> << >>, ext |-> ""]

NoImage == [kind |-> "none"]

Decodable == [kind : {"image"}, w : FileDims, h : FileDims, orient : Orientations,
              exif : BOOLEAN, icc : BOOLEAN, alpha : BOOLEAN]

Terminal == {"Emitted", "Skipped"}

(***************************************************************************)
(* State                                                                   *)
(***************************************************************************)
VARIABLES
    frontend,      \* "cli" (image_formatter.py) or "web" (app.py)
    pc,            \* position of the driver
    args,          \* command line as given: size, bg, input
    canvas_size,
    bg_color,      \* << >> is None (transparent)
    todo,          \* directory entries / uploaded entries still to iterate
    named_left,    \* web: entries with a non-empty filename still to come
    total_files,   \* web: len([f for f in files if f.filename != ''])
    submitted,     \* input files met by the loop so far
    dir_seen,      \* cli: directory entries already iterated
    input_dir,     \* web: files in temp_input_dir
    out_dir,       \* files in the output folder: path -> what is on disk
    output_path,
    src,           \* the image as Image.open returned it
    img,           \* the local variable img of process_image
    orient_ok,     \* whether exif_transpose returned normally
    result,        \* the local variable result of process_image
    ret,           \* return value of process_image / process_single_image
    error,         \* the exception caught by "except Exception as e", if any
    stageOf,       \* stage of every image handed to the pipeline, in order
    processed,
    skipped,
    outcome,       \* exit code of the cli / response of the web request
    zip            \* web: the archive sent back, entry -> what it holds

vars == << frontend, pc, args, canvas_size, bg_color, todo, named_left, total_files,
           submitted, dir_seen, input_dir, out_dir, output_path, src, img,
           orient_ok, result, ret, error, stageOf, processed, skipped, outcome, zip >>

config == << frontend, args, canvas_size, bg_color >>
batch == << todo, named_left, total_files, submitted, dir_seen, input_dir >>
counters == << processed, skipped >>
locals == << src, img, orient_ok, result, error >>

NoArgs == [size |-> 0, bg |-> << "absent" >>, input |-> ""]
EmptyDir == << >>

stage == IF stageOf = << >> THEN "Idle" ELSE stageOf[Len(stageOf)]

SetStage(s) == stageOf' = [stageOf EXCEPT ![Len(stageOf)] = s]

Rest ==
    /\ args = NoArgs
    /\ todo = 0 /\ named_left = 0 /\ total_files = 0 /\ submitted = 0
    /\ dir_seen = {} /\ input_dir = {} /\ out_dir = EmptyDir
    /\ output_path = NoName
    /\ src = NoImage /\ orient_ok = FALSE
    /\ ret = "unset" /\ error = "" /\ stageOf = << >>
    /\ processed = 0 /\ skipped = 0
    /\ outcome = "running" /\ zip = EmptyDir

Init ==
    /\ pc = "start"
    /\ frontend \in {"cli", "web"}
    /\ canvas_size = DefaultCanvas
    /\ bg_color = << >>
    /\ img = NoImage /\ result = NoCanvas
    /\ Rest

(***************************************************************************)
(* image_formatter.py: main                                                *)
(***************************************************************************)
\* argument parsing, parse_color, the checks on the input and output paths
CliParseArgs ==
    /\ pc = "start" /\ frontend = "cli"
    /\ \E size \in CliSizes, bg \in BgSamples,
          input \in {"missing", "file", "folder", "folder_onto_file"},
          n \in 0..MaxFiles :
          LET c == parse_color(bg)
          IN  /\ args' = [size |-> size, bg |-> bg, input |-> input]
              /\ canvas_size' = size
              /\ IF ~c.ok
                 THEN /\ pc' = "exit" /\ outcome' = "exit 1"
                      /\ UNCHANGED << bg_color, todo >>
                 ELSE /\ bg_color' = c.rgb
                      /\ IF input \in {"missing", "folder_onto_file"}
                         THEN pc' = "exit" /\ outcome' = "exit 1" /\ todo' = todo
                         ELSE IF input = "file"
                         THEN pc' = "single" /\ outcome' = outcome /\ todo' = todo
                         ELSE pc' = "loop" /\ outcome' = outcome /\ todo' = n
    /\ UNCHANGED << frontend, named_left, total_files, submitted, dir_seen, input_dir,
                    out_dir, output_path, locals, ret, stageOf, counters, zip >>

\* single input file: the format check, the output suffix, the call
CliSingleFile ==
    /\ pc = "single"
    /\ \E name \in Names, outExt \in {"png", "webp", "jpg"} :
          IF name.ext \notin SUPPORTED_FORMATS
          THEN /\ pc' = "exit" /\ outcome' = "exit 1"
               /\ UNCHANGED << output_path, stageOf, submitted >>
          ELSE /\ output_path' = [stem |-> << "out" >>,
                                  ext |-> IF outExt \in {"png", "webp"} THEN outExt ELSE "png"]
               /\ stageOf' = Append(stageOf, "Received")
               /\ submitted' = submitted + 1
               /\ pc' = "image" /\ outcome' = outcome
    /\ UNCHANGED << config, todo, named_left, total_files, dir_seen, input_dir, out_dir,
                    locals, ret, counters, zip >>

\* sys.exit(0 if success else 1)
CliSingleExit ==
    /\ pc = "image" /\ frontend = "cli" /\ args.input = "file"
    /\ stage \in Terminal
    /\ pc' = "exit"
    /\ outcome' = IF ret = "True" THEN "exit 0" ELSE "exit 1"
    /\ UNCHANGED << config, batch, out_dir, output_path, locals, ret, stageOf,
                    counters, zip >>

\* one iteration of "for file_path in input_path.iterdir()" up to the call
CliNextEntry ==
    /\ pc = "loop" /\ frontend = "cli" /\ todo > 0
    /\ \E name \in Names \ dir_seen, is_file \in BOOLEAN :
          /\ dir_seen' = dir_seen \cup {name}
          /\ todo' = todo - 1
          /\ submitted' = IF is_file THEN submitted + 1 ELSE submitted
          /\ IF is_file /\ name.ext \in SUPPORTED_FORMATS
             THEN /\ output_path' = [stem |-> name.stem, ext |-> "png"]
                  /\ stageOf' = Append(stageOf, "Received")
                  /\ pc' = "image"
             ELSE UNCHANGED << output_path, stageOf, pc >>
    /\ UNCHANGED << config, named_left, total_files, input_dir, out_dir, locals, ret,
                    counters, outcome, zip >>

\* processed += 1 or skipped += 1, and on to the next entry
CliCount ==
    /\ pc = "image" /\ frontend = "cli" /\ args.input = "folder"
    /\ stage \in Terminal
    /\ IF ret = "True"
       THEN processed' = processed + 1 /\ skipped' = skipped
       ELSE skipped' = skipped + 1 /\ processed' = processed
    /\ pc' = "loop"
    /\ output_path' = NoName
    /\ src' = NoImage /\ img' = NoImage /\ orient_ok' = FALSE /\ result' = NoCanvas
    /\ ret' = "unset" /\ error' = ""
    /\ UNCHANGED << config, batch, out_dir, stageOf, outcome, zip >>

\* the loop is over: the summary is logged and main returns
CliFinish ==
    /\ pc = "loop" /\ frontend = "cli" /\ todo = 0
    /\ pc' = "exit" /\ outcome' = "exit 0"
    /\ UNCHANGED << config, batch, out_dir, output_path, locals, ret, stageOf,
                    counters, zip >>

(***************************************************************************)
(* process_image (cli) and process_single_image (web), one statement of    *)
(* the try block at a time.  Whatever a statement raises is caught by      *)
(* "except Exception", which logs and returns False.                       *)
(***************************************************************************)
ReturnFalse(e) ==
    /\ ret' = "False"
    /\ error' = e
    /\ SetStage("Skipped")

\* with Image.open(input_path) as img
OpenImage ==
    /\ pc = "image" /\ stage = "Received"
    /\ \/ \E image \in Decodable :
             /\ src' = image /\ img' = image
             /\ SetStage("Decoded")
             /\ UNCHANGED << ret, error >>
       \/ /\ ReturnFalse("decode")
          /\ UNCHANGED << src, img >>
    /\ UNCHANGED << config, batch, out_dir, output_path, orient_ok, result,
                    counters, pc, outcome, zip >>

\* img = apply_exif_orientation(img)
Orient ==
    /\ pc = "image" /\ stage = "Decoded"
    /\ \E fails \in BOOLEAN :
          LET r == apply_exif_orientation(img, fails)
          IN  IF r.kind = "raise"
              THEN ReturnFalse("orientation") /\ UNCHANGED << img, orient_ok >>
              ELSE /\ img' = r
                   /\ orient_ok' = ~fails
                   /\ SetStage("OrientationNormalized")
                   /\ UNCHANGED << ret, error >>
    /\ UNCHANGED << config, batch, out_dir, output_path, src, result,
                    counters, pc, outcome, zip >>

\* result = center_image_on_canvas(...); if result is None: return False
Compose ==
    /\ pc = "image" /\ stage = "OrientationNormalized"
    /\ LET r == center_image_on_canvas(frontend, img, canvas_size, bg_color)
       IN  IF r.kind = "canvas"
           THEN /\ result' = r
                /\ SetStage("Composited")
                /\ UNCHANGED << ret, error >>
           ELSE /\ ReturnFalse(IF r.kind = "raise" THEN "resize" ELSE "")
                /\ result' = r
    /\ UNCHANGED << config, batch, out_dir, output_path, src, img, orient_ok,
                    counters, pc, outcome, zip >>

\* the keyword arguments of result.save
save_kwargs(fe, path, image) ==
    IF fe = "web" THEN [format |-> "PNG", exif |-> FALSE, icc |-> FALSE]
    ELSE [format |-> IF path.ext = "webp" THEN "WEBP" ELSE "PNG",
          exif |-> image.exif, icc |-> image.icc]

\* what a failed Image.save leaves at the path ("The file may have been
\* created, and may contain partial data"): a file that was there before is
\* kept if the failure came before the file was opened and is truncated
\* otherwise; a file the call created is removed again or left behind
AfterFailedSave(dir, path) ==
    IF path \in DOMAIN dir
    THEN {dir, [dir EXCEPT ![path].state = "partial"]}
    ELSE {dir, (path :> [state |-> "partial", format |-> ""]) @@ dir}

\* result.save(output_path, ...)
Save ==
    /\ pc = "image" /\ stage = "Composited"
    /\ LET kw == save_kwargs(frontend, output_path, img)
       IN  \/ /\ out_dir' = (output_path :> [state |-> "full", format |-> kw.format]) @@ out_dir
              /\ SetStage("Encoded")
              /\ UNCHANGED << ret, error >>
           \/ \E e \in {"encode"} \cup (IF kw.exif \/ kw.icc THEN {"metadata"} ELSE {}) :
                 \* the encoder or the file system fails ("encode"), or the
                 \* encoder rejects the EXIF or ICC blob handed to it ("metadata")
                 /\ out_dir' \in AfterFailedSave(out_dir, output_path)
                 /\ ReturnFalse(e)
    /\ UNCHANGED << config, batch, output_path, src, img, orient_ok, result,
                    counters, pc, outcome, zip >>

\* logger.info("Processed ..."); return True
ReturnTrue ==
    /\ pc = "image" /\ stage = "Encoded"
    /\ ret' = "True"
    /\ SetStage("Emitted")
    /\ UNCHANGED << config, batch, out_dir, output_path, locals, counters, pc,
                    outcome, zip >>

(***************************************************************************)
(* app.py: process_images                                                  *)
(***************************************************************************)
\* "while os.path.exists(...)": the first of filename, base_1, base_2, ...
\* that is not in the directory
RECURSIVE FreshName(_, _, _, _)
FreshName(stem, base, counter, taken) ==
    IF stem \notin taken THEN stem
    ELSE FreshName(Append(base, counter), base, counter + 1, taken)

StemsIn(dir, ext) == {n.stem : n \in {m \in dir : m.ext = ext}}

\* the request is checked, the temporary directories are made
WebBegin ==
    /\ pc = "start" /\ frontend = "web"
    /\ \E n \in 0..MaxFiles, too_large \in BOOLEAN :
          \E named \in 0..n :
             IF named = 0
             THEN /\ pc' = "exit" /\ outcome' = "redirect: no files selected"
                  /\ UNCHANGED << todo, named_left, total_files >>
             ELSE IF too_large
             THEN /\ pc' = "exit" /\ outcome' = "redirect: size limit"
                  /\ UNCHANGED << todo, named_left, total_files >>
             ELSE /\ pc' = "loop" /\ outcome' = outcome
                  /\ todo' = n /\ named_left' = named /\ total_files' = named
    /\ UNCHANGED << config, submitted, dir_seen, input_dir, out_dir, output_path,
                    locals, ret, stageOf, counters, zip >>

\* an upload entry without a filename is passed over
WebBlankEntry ==
    /\ pc = "loop" /\ frontend = "web" /\ todo > named_left
    /\ todo' = todo - 1
    /\ UNCHANGED << config, named_left, total_files, submitted, dir_seen, input_dir,
                    out_dir, output_path, locals, ret, stageOf, counters, pc,
                    outcome, zip >>

\* one iteration of the upload loop up to the call of process_single_image
WebNextFile ==
    /\ pc = "loop" /\ frontend = "web" /\ named_left > 0
    /\ \E name \in Names, saved \in BOOLEAN, left_behind \in BOOLEAN :
          LET in_stem == FreshName(name.stem, name.stem, 1, StemsIn(input_dir, name.ext))
              filename == [stem |-> in_stem, ext |-> name.ext]
              out_stem == FreshName(in_stem, in_stem, 1, StemsIn(DOMAIN out_dir, "png"))
          IN  /\ todo' = todo - 1 /\ named_left' = named_left - 1
              /\ submitted' = submitted + 1
              /\ IF name.ext \notin SUPPORTED_FORMATS
                 THEN /\ skipped' = skipped + 1
                      /\ UNCHANGED << input_dir, output_path, stageOf, pc >>
                 ELSE IF ~saved
                 THEN \* file.save raises: the inner except counts a skip
                      /\ skipped' = skipped + 1
                      /\ input_dir' = IF left_behind THEN input_dir \cup {filename}
                                      ELSE input_dir
                      /\ UNCHANGED << output_path, stageOf, pc >>
                 ELSE /\ input_dir' = input_dir \cup {filename}
                      /\ output_path' = [stem |-> out_stem, ext |-> "png"]
                      /\ stageOf' = Append(stageOf, "Received")
                      /\ pc' = "image"
                      /\ skipped' = skipped
    /\ UNCHANGED << config, total_files, dir_seen, out_dir, locals, ret, processed,
                    outcome, zip >>

\* processed_count += 1 or skipped_count += 1, and on to the next entry
WebCount ==
    /\ pc = "image" /\ frontend = "web"
    /\ stage \in Terminal
    /\ IF ret = "True"
       THEN processed' = processed + 1 /\ skipped' = skipped
       ELSE skipped' = skipped + 1 /\ processed' = processed
    /\ pc' = "loop"
    /\ output_path' = NoName
    /\ src' = NoImage /\ img' = NoImage /\ orient_ok' = FALSE /\ result' = NoCanvas
    /\ ret' = "unset" /\ error' = ""
    /\ UNCHANGED << config, batch, out_dir, stageOf, outcome, zip >>

\* after the loop: the archive of everything in temp_output_dir, the
\* response, and the removal of both temporary directories
WebFinish ==
    /\ pc = "loop" /\ frontend = "web" /\ todo = 0
    /\ \/ /\ processed = 0
          /\ outcome' = "redirect: none processed" /\ zip' = zip
       \/ /\ processed > 0
          /\ \/ outcome' = "zip" /\ zip' = out_dir
             \/ outcome' = "redirect: error" /\ zip' = zip
    /\ pc' = "exit"
    /\ input_dir' = {} /\ out_dir' = EmptyDir
    /\ UNCHANGED << config, todo, named_left, total_files, submitted, dir_seen, 
                    output_path, locals, ret, stageOf, counters >>

(***************************************************************************)
(* The two programs                                                        *)
(***************************************************************************)
Next ==
    \/ CliParseArgs \/ CliSingleFile \/ CliSingleExit
    \/ CliNextEntry \/ CliCount \/ CliFinish
    \/ WebBegin \/ WebBlankEntry \/ WebNextFile \/ WebCount \/ WebFinish
    \/ OpenImage \/ Orient \/ Compose \/ Save \/ ReturnTrue

Spec == Init /\ [][Next]_vars

(***************************************************************************)
(* center_image_on_canvas on its own: one call on an image of any size     *)
(***************************************************************************)
LargeDims == {600, 1000, DefaultCanvas, 2000, 2191}

Dims == (1..MaxDim) \cup LargeDims

CanvasSizes == (1..MaxCanvas) \cup {DefaultCanvas}

InitCenter ==
    /\ pc = "center"
    /\ frontend \in {"cli", "web"}
    /\ canvas_size \in CanvasSizes
    /\ bg_color \in {<< >>, << 255, 255, 255 >>}
    /\ img \in [kind : {"image"}, w : Dims, h : Dims, orient : {0},
                exif : {FALSE}, icc : {FALSE}, alpha : BOOLEAN]
    /\ result = NoCanvas
    /\ Rest

CenterCall ==
    /\ pc = "center"
    /\ result' = center_image_on_canvas(frontend, img, canvas_size, bg_color)
    /\ pc' = "centered"
    /\ UNCHANGED << config, batch, out_dir, output_path, src, img, orient_ok, error,
                    ret, stageOf, counters, outcome, zip >>

NextCenter == CenterCall

SpecCenter == InitCenter /\ [][NextCenter]_vars

(***************************************************************************)
(* Properties                                                              *)
(***************************************************************************)
LoopEnded ==
    /\ pc = "exit"
    /\ \/ frontend = "cli" /\ args.input = "folder" /\ outcome = "exit 0"
       \/ frontend = "web" /\ outcome \in {"zip", "redirect: none processed",
                                           "redirect: error"}

FullFiles(dir) == {p \in DOMAIN dir : dir[p].state = "full"}

\* C1: when process_image / process_single_image has returned, a False result
\* means that no file exists at its output path and a True result means that a
\* fully written file exists there.
C1_AtomicOutcome ==
    (pc = "image" /\ stage \in Terminal /\ canvas_size >= 1) =>
        /\ ret = "False" => output_path \notin DOMAIN out_dir
        /\ ret = "True" => /\ output_path \in DOMAIN out_dir
                           /\ out_dir[output_path].state = "full"

\* C2: for an image that fits the canvas (1 <= w, h <= S) both variants
\* return an S x S canvas with the unscaled image pasted at
\* (floor((S - w) / 2), floor((S - h) / 2)): the offsets are not negative, the
\* pasted region lies inside the canvas and an odd difference puts the extra
\* pixel of padding on the right and at the bottom.
C2_CenteredUnscaled ==
    (/\ pc = "centered"
     /\ img.w >= 1 /\ img.w <= canvas_size
     /\ img.h >= 1 /\ img.h <= canvas_size) =>
        /\ result.kind = "canvas"
        /\ result.w = canvas_size /\ result.h = canvas_size
        /\ result.pw = img.w /\ result.ph = img.h
        /\ 2 * result.x <= canvas_size - img.w /\ canvas_size - img.w <= 2 * result.x + 1
        /\ 2 * result.y <= canvas_size - img.h /\ canvas_size - img.h <= 2 * result.y + 1
        /\ result.x >= 0 /\ result.y >= 0
        /\ result.x + result.pw <= canvas_size /\ result.y + result.ph <= canvas_size
        /\ canvas_size - (result.x + result.pw) >= result.x
        /\ canvas_size - (result.y + result.ph) >= result.y
        /\ (img.w = canvas_size /\ img.h = canvas_size) => (result.x = 0 /\ result.y = 0)

\* an image that fits, with an odd difference on one axis and none on the other
C2_Witness ==
    /\ pc = "centered"
    /\ result.kind = "canvas"
    /\ img.h = canvas_size
    /\ img.w < canvas_size /\ (canvas_size - img.w) % 2 = 1
    /\ result.x >= 1
    /\ canvas_size - (result.x + result.pw) = result.x + 1

\* C3: in the cli variant an image whose width or height after orientation
\* exceeds the canvas makes center_image_on_canvas return None (no exception)
\* and process_image return False at once: no canvas, no save, nothing written.
C3_OversizeSkippedCli ==
    [][(/\ frontend = "cli" /\ pc = "image"
        /\ stage = "OrientationNormalized"
        /\ (img.w > canvas_size \/ img.h > canvas_size)) =>
            /\ stage' = "Skipped"
            /\ result' = NoCanvas
            /\ ret' = "False" /\ error' = ""
            /\ out_dir' = out_dir]_vars

\* an oversized image skipped by a cli run with the default canvas
C3_Witness ==
    /\ frontend = "cli" /\ pc = "image"
    /\ canvas_size = DefaultCanvas
    /\ stage = "Skipped" /\ ret = "False" /\ error = ""
    /\ img.kind = "image"
    /\ img.w <= canvas_size /\ img.h > canvas_size
    /\ result = NoCanvas
    /\ output_path \notin DOMAIN out_dir

\* C4: in the web variant an oversized image is resized to
\* (floor(w * scale), floor(h * scale)) with scale = min(S / w, S / h), neither
\* dimension exceeds S and both offsets are >= 0.
C4_DownscaleExact ==
    (/\ pc = "centered" /\ frontend = "web"
     /\ (img.w > canvas_size \/ img.h > canvas_size)
     /\ result.kind = "canvas") =>
        LET long == IF img.w >= img.h THEN img.w ELSE img.h
        IN  /\ result.pw = (img.w * canvas_size) \div long
            /\ result.ph = (img.h * canvas_size) \div long
            /\ result.pw <= canvas_size /\ result.ph <= canvas_size
            /\ result.x >= 0 /\ result.y >= 0

\* C5: when the source carried an EXIF or ICC blob and the encoder fails to
\* attach it, process_image still writes the output and returns True.
C5_MetadataFailureNonFatal ==
    (pc = "image" /\ stage \in Terminal /\ canvas_size >= 1 /\ error = "metadata") =>
        /\ ret = "True"
        /\ output_path \in DOMAIN out_dir
        /\ out_dir[output_path].state = "full"

HexString(s) == Len(s) \in {3, 6} /\ \A i \in 1..Len(s) : IsHex(s[i])

ValidColorArg(bg) ==
    \/ bg = << "absent" >>
    \/ LET t == Strip(bg)
       IN  HexString(IF t # << >> /\ Head(t) = "#" THEN Tail(t) ELSE t)

\* C6: with an invalid background colour or a canvas size <= 0 the cli ends
\* with a fatal error before any image is decoded: no image is opened, none
\* is counted as processed or skipped, and the run does not end successfully.
C6_ConfigFailFast ==
    (/\ frontend = "cli" /\ pc # "start"
     /\ (~ValidColorArg(args.bg) \/ args.size <= 0)) =>
        /\ \A i \in DOMAIN stageOf : stageOf[i] = "Received"
        /\ processed = 0 /\ skipped = 0
        /\ pc = "exit" => outcome = "exit 1"

\* C7: at the end of a batch the number of outputs (files written to the
\* output folder, entries of the archive) equals the processed count.
C7_DistinctOutputs ==
    /\ (LoopEnded /\ frontend = "cli" /\ canvas_size >= 1) =>
           Cardinality(FullFiles(out_dir)) = processed
    /\ (pc = "exit" /\ outcome = "zip") => Cardinality(FullFiles(zip)) = processed

\* C8: when the loop of a batch has ended, processed + skipped equals the
\* number of input files submitted, unsupported ones included.
C8_BatchComplete ==
    (LoopEnded /\ canvas_size >= 1) =>
        /\ processed + skipped = submitted
        /\ frontend = "web" => processed + skipped = total_files

StageSteps ==
    { << "Received", "Decoded" >>, << "Decoded", "OrientationNormalized" >>,
      << "OrientationNormalized", "Composited" >>, << "Composited", "Encoded" >>,
      << "Encoded", "Emitted" >>,
      << "Received", "Skipped" >>, << "OrientationNormalized", "Skipped" >>,
      << "Composited", "Skipped" >> }

\* the image as it is after orientation: turned if exif_transpose succeeded
PostOrientation ==
    IF orient_ok /\ src.orient \in 5..8
    THEN [src EXCEPT !.w = src.h, !.h = src.w, !.orient = 0]
    ELSE IF orient_ok THEN [src EXCEPT !.orient = 0] ELSE src

\* C9: every image goes through Received, Decoded, OrientationNormalized,
\* Composited, Encoded, Emitted in this order or ends in Skipped; a failed
\* orientation never skips the image, which goes on unrotated; the oversize
\* check and the centring use the dimensions after orientation; an image that
\* is Emitted or Skipped never changes stage again.
C9_StageOrder ==
    [][/\ Len(stageOf') >= Len(stageOf)
       /\ \A i \in DOMAIN stageOf :
             stageOf'[i] = stageOf[i] \/ << stageOf[i], stageOf'[i] >> \in StageSteps
       /\ \A i \in DOMAIN stageOf' \ DOMAIN stageOf : stageOf'[i] = "Received"
       /\ (stage = "Decoded" /\ stageOf' # stageOf) =>
             /\ stage' = "OrientationNormalized"
             /\ ~orient_ok' => (img'.w = src.w /\ img'.h = src.h)
       /\ (stage = "OrientationNormalized" /\ stageOf' # stageOf) =>
             /\ img.w = PostOrientation.w /\ img.h = PostOrientation.h
             /\ result' = center_image_on_canvas(frontend, PostOrientation,
                                                 canvas_size, bg_color)
             /\ (frontend = "cli" /\ stage' = "Skipped") <=>
                   (frontend = "cli" /\ (PostOrientation.w > canvas_size
                                         \/ PostOrientation.h > canvas_size))]_vars

\* an image whose orientation could not be applied was emitted unrotated
C9_Witness ==
    /\ pc = "image" /\ stage = "Emitted"
    /\ ~orient_ok /\ src.orient = 6
    /\ src.w # src.h
    /\ result.kind = "canvas"
    /\ result.pw = src.w /\ result.ph = src.h

\* C10: in the web variant the downscaled width and height are both >= 1, so
\* composing a decoded image always yields a canvas.
C10_DownscaledDimsPositive ==
    (pc = "centered" /\ frontend = "web") =>
        /\ result.kind = "canvas"
        /\ result.pw >= 1 /\ result.ph >= 1

====
